---------------------------- MODULE Spec2Model ----------------------------
(***************************************************************************)
(* Model of the feeding-record scripts:                                    *)
(*   visualize_by_pen_with_acci.py, visualize_pen_daily_water_feed_ratio.py*)
(*   visualize_feeding_data.py, visualize_with_accidents-stand.py          *)
(*                                                                         *)
(* Every script is a linear batch job, so each function of the scripts is  *)
(* one action that reads its input table and writes its result.  The       *)
(* tables a function reads are drawn in Init from bounded sets of cells.   *)
(*                                                                         *)
(* Spreadsheet cells are records [k, v, t]:                                *)
(*   k = "nan"   an empty cell (NaN / NaT)                                 *)
(*   k = "int"   an integral number v                                      *)
(*   k = "frac"  the non-integral number v + 1/2                           *)
(*   k = "str"   text that is neither a number nor a date                  *)
(*   k = "ts"    a date-time: day v (proleptic ordinal), time of day t     *)
(* Quantities (feed, water, counts) are integers; the ratio is an exact    *)
(* fraction or one of the IEEE values inf, -inf, nan.                      *)
(***************************************************************************)
EXTENDS Integers, Sequences, FiniteSets, TLC

VARIABLES
    df,               \* feeding table: the rows under the resolved columns
    pen_data,         \* result of read_and_process_by_pen
    unit_data,        \* result of read_and_process_file
    acc_sheet,        \* first sheet of the accident file
    accident_dates,   \* result of read_accident_dates
    sheet1,           \* Sheet1 of the accident file
    transfer_sale,    \* result of read_transfer_and_sale_dates
    treatment_dates,  \* result of read_treatment_dates
    date_num,         \* a cell of the column '日期' of Sheet1
    date,             \* the date the extractors compute for date_num
    std_sheet,        \* the feeding-standard workbook
    standards,        \* result of read_henan_standard
    age,              \* an age in days
    std_feed,         \* result of get_standard_feed_by_age(standards, age)
    dates,            \* the column '日期' of the aggregate that is charted
    total_head_count, \* head count returned by read_and_process_file
    start_age,        \* parameter start_age of the chart function
    end_age,          \* parameter end_age of the chart function
    chart,            \* what create_visualization_with_accidents produced
    columns,          \* df.columns: the header row of a feeding file
    pen_cols,         \* the columns read_and_process_by_pen resolves
    unit_cols,        \* the columns read_and_process_file resolves
    pen_number,       \* the enclosure create_visualization_by_pen is called for
    pen_chart,        \* what create_visualization_by_pen produced
    pc,               \* the statement the per-enclosure script is at
    file_exists,      \* os.path.exists(file)
    chart_raises,     \* the enclosures whose chart generation raises
    target_pens,      \* the enclosures the loop has still to chart
    charts,           \* the charts the script has saved
    files,            \* the feeding files of visualize_feeding_data.py
    file_idx,         \* the file its loop is at
    outcomes          \* what the loop did with each file so far

aggVars == <<df, pen_data, unit_data>>
accVars == <<acc_sheet, accident_dates>>
sheetVars == <<sheet1, transfer_sale, treatment_dates>>
serialVars == <<date_num, date>>
stdVars == <<std_sheet, standards, age, std_feed>>

curveVars == <<dates, total_head_count, start_age, end_age, chart>>

\* the variables of the chart functions and of the drivers
colVars == <<columns, pen_cols, unit_cols>>
evVars == <<pen_number, pen_chart>>
drvVars == <<pc, file_exists, chart_raises, target_pens, charts>>
fileVars == <<files, file_idx, outcomes>>
lateVars == <<curveVars, colVars, evVars, drvVars, fileVars>>

vars == <<aggVars, accVars, sheetVars, serialVars, stdVars, lateVars>>

-----------------------------------------------------------------------------
(* Bounds of the model *)

MaxRows == 2          \* rows of a feeding table
MaxQty == 1           \* largest feed / water value of a cell
MaxPen == 2           \* enclosure ids 1..MaxPen
MaxDay == 2           \* calendar days FirstDay .. FirstDay + MaxDay - 1
MaxTod == 1           \* times of day 0..MaxTod (0 is midnight)
MaxCount == 2         \* largest treatment count of a cell
MaxSerial == 61       \* serial dates 0..MaxSerial (60 is Excel's 1900-02-29)
MaxStages == 2        \* rows of the feeding-standard table
MaxAge == 3           \* stage boundaries 1..MaxAge, ages 0..MaxAge + 1
MaxFeed == 3          \* per-head daily feed 0..MaxFeed
MaxDates == 2         \* dates of a charted series
MaxHead == 5          \* largest total head count
MaxFiles == 2         \* files of the loop over files
MaxCols == 5          \* columns of a header row
MantissaBits == 3     \* significant bits of the model's binary floating point

-----------------------------------------------------------------------------
(* Cells *)

NaN == [k |-> "nan", v |-> 0, t |-> 0]
Str == [k |-> "str", v |-> 0, t |-> 0]
IntCell(n) == [k |-> "int", v |-> n, t |-> 0]
FracCell(n) == [k |-> "frac", v |-> n, t |-> 0]
Timestamp(ord, tod) == [k |-> "ts", v |-> ord, t |-> tod]
NaT == NaN

\* pd.notna / the test dropna applies to a cell
notna(c) == c.k # "nan"

-----------------------------------------------------------------------------
(* The proleptic Gregorian calendar of datetime.date *)

DAYS_IN_MONTH == <<31, 28, 31, 30, 31, 30, 31, 31, 30, 31, 30, 31>>

DAYS_BEFORE_MONTH == <<0, 31, 59, 90, 120, 151, 181, 212, 243, 273, 304, 334>>

is_leap(year) ==
    (year % 4 = 0) /\ ((year % 100 # 0) \/ (year % 400 = 0))

days_before_year(year) ==
    LET y == year - 1
    IN  y * 365 + (y \div 4) - (y \div 100) + (y \div 400)

days_before_month(year, month) ==
    DAYS_BEFORE_MONTH[month] + (IF month > 2 /\ is_leap(year) THEN 1 ELSE 0)

\* date(year, month, day).toordinal()
ymd2ord(year, month, day) ==
    days_before_year(year) + days_before_month(year, month) + day

\* date.fromordinal(n) as [year, month, day]
ord2ymd(ordinal) ==
    LET n0   == ordinal - 1
        n400 == n0 \div 146097
        r400 == n0 % 146097
        n100 == r400 \div 36524
        r100 == r400 % 36524
        n4   == r100 \div 1461
        r4   == r100 % 1461
        n1   == r4 \div 365
        n    == r4 % 365
        year == n400 * 400 + 1 + n100 * 100 + n4 * 4 + n1
        leapyear == (n1 = 3) /\ ((n4 # 24) \/ (n100 = 3))
        lp(m) == IF m > 2 /\ leapyear THEN 1 ELSE 0
        month0 == (n + 50) \div 32
        prec0 == DAYS_BEFORE_MONTH[month0] + lp(month0)
        month == IF prec0 > n THEN month0 - 1 ELSE month0
        prec == IF prec0 > n
                THEN prec0 - (DAYS_IN_MONTH[month]
                              + (IF month = 2 /\ leapyear THEN 1 ELSE 0))
                ELSE prec0
    IN  IF n1 = 4 \/ n100 = 4
        THEN [year |-> year - 1, month |-> 12, day |-> 31]
        ELSE [year |-> year, month |-> month, day |-> n - prec + 1]

\* first day of the feeding records of the scripts' input file (2025-08-25)
FirstDay == ymd2ord(2025, 8, 25)


-----------------------------------------------------------------------------
(* Table primitives (the pandas calls the scripts make) *)

\* pd.to_datetime(col, errors='coerce') on one cell of a date column: a
\* date-time is kept with its time of day, a blank or unparsable cell is NaT
to_datetime(c) ==
    IF c.k = "ts" THEN Timestamp(c.v, c.t) ELSE NaT

\* a conversion that lands on the following day
next_day(ts) == Timestamp(ts.v + 1, 0)

\* ts.date() turned back into a Timestamp: the time of day is dropped
normalize(ts) == Timestamp(ts.v, 0)

\* order of two cells of one column (numbers by value, date-times by instant)
CellLess(a, b) ==
    (a.v < b.v) \/ (a.v = b.v /\ a.t < b.t)

\* the values of row r under the columns `by`
Key(r, by) == [j \in 1..Len(by) |-> r[by[j]]]

TupleLess(a, b) ==
    \E j \in 1..Len(a) :
        /\ CellLess(a[j], b[j])
        /\ \A i \in 1..(j - 1) : a[i] = b[i]

\* a dropna that removes nothing
keepna(rows, cols) == rows

\* df.dropna(subset=cols)
dropna(rows, cols) ==
    SelectSeq(rows, LAMBDA r : \A j \in 1..Len(cols) : notna(r[cols[j]]))

\* the group keys of df.groupby(by): keys holding a missing value are left
\* out, the others come in ascending order
RECURSIVE SortKeys(_)
SortKeys(S) ==
    IF S = {} THEN <<>>
    ELSE LET m == CHOOSE x \in S : \A y \in S \ {x} : TupleLess(x, y)
         IN  <<m>> \o SortKeys(S \ {m})

GroupKeys(rows, by) ==
    SortKeys({ k \in { Key(rows[i], by) : i \in 1..Len(rows) } :
                 \A j \in 1..Len(by) : notna(k[j]) })

\* a reducer that keeps the last value of the group instead of adding it up
RECURSIVE AggOverwrite(_, _, _, _)
AggOverwrite(rows, by, k, col) ==
    IF rows = <<>> THEN 0
    ELSE LET r == rows[Len(rows)]
         IN  IF Key(r, by) = k /\ r[col].k = "int"
             THEN r[col].v
             ELSE AggOverwrite(SubSeq(rows, 1, Len(rows) - 1), by, k, col)

\* agg 'sum' of column col over the rows of group k (missing cells skipped)
RECURSIVE AggSum(_, _, _, _)
AggSum(rows, by, k, col) ==
    IF rows = <<>> THEN 0
    ELSE LET r == Head(rows)
             x == IF Key(r, by) = k /\ r[col].k = "int" THEN r[col].v ELSE 0
         IN  x + AggSum(Tail(rows), by, k, col)

\* an aggregation that takes the last present cell of the group
RECURSIVE AggLast(_, _, _, _)
AggLast(rows, by, k, col) ==
    IF rows = <<>> THEN NaN
    ELSE LET r == rows[Len(rows)]
         IN  IF Key(r, by) = k /\ notna(r[col])
             THEN r[col]
             ELSE AggLast(SubSeq(rows, 1, Len(rows) - 1), by, k, col)

\* agg 'first' of column col over the rows of group k: the first cell of the
\* group, in row order, that is not missing; NaN when the group has none
RECURSIVE AggFirst(_, _, _, _)
AggFirst(rows, by, k, col) ==
    IF rows = <<>> THEN NaN
    ELSE LET r == Head(rows)
         IN  IF Key(r, by) = k /\ notna(r[col])
             THEN r[col]
             ELSE AggFirst(Tail(rows), by, k, col)

\* data.sort_values(by): rows in ascending order of their key
RECURSIVE Insert(_, _, _)
Insert(r, sorted, by) ==
    IF sorted = <<>> THEN <<r>>
    ELSE IF TupleLess(Key(r, by), Key(Head(sorted), by))
         THEN <<r>> \o sorted
         ELSE <<Head(sorted)>> \o Insert(r, Tail(sorted), by)

\* a step that turns the order of the rows round
reversed_rows(rows, by) == [i \in 1..Len(rows) |-> rows[Len(rows) - i + 1]]

RECURSIVE sort_values(_, _)
sort_values(rows, by) ==
    IF rows = <<>> THEN <<>>
    ELSE Insert(rows[Len(rows)], sort_values(SubSeq(rows, 1, Len(rows) - 1), by), by)

RECURSIVE GCD(_, _)
GCD(a, b) == IF b = 0 THEN a ELSE GCD(b, a % b)

Abs(x) == IF x < 0 THEN -x ELSE x

\* the division of two Python numbers, which raises ZeroDivisionError
scalar_div(water, feed) ==
    IF feed = 0
    THEN [k |-> "raise", n |-> 0, d |-> 0]
    ELSE LET g == GCD(Abs(water), Abs(feed))
         IN  [k |-> "num", n |-> water \div g, d |-> feed \div g]

\* water / feed of two float64 columns, one element: IEEE division, which
\* gives inf, -inf or nan for a zero divisor and raises nothing
truediv(water, feed) ==
    IF feed = 0
    THEN IF water = 0 THEN [k |-> "nan", n |-> 0, d |-> 0]
         ELSE IF water > 0 THEN [k |-> "inf", n |-> 0, d |-> 0]
         ELSE [k |-> "-inf", n |-> 0, d |-> 0]
    ELSE LET g == GCD(Abs(water), Abs(feed))
             s == IF feed < 0 THEN -1 ELSE 1
         IN  [k |-> "num", n |-> s * (water \div g), d |-> s * (feed \div g)]

-----------------------------------------------------------------------------
(* Results of the loaders *)

NotRun == [status |-> "notrun", rows |-> <<>>]
None == [status |-> "none", rows |-> <<>>]
Frame(rows) == [status |-> "ok", rows |-> rows]

\* the ratio column is added to every row; an exception anywhere in the
\* function body is caught by its except clause, which returns None
WithRatio(rows) ==
    LET out == [i \in 1..Len(rows) |->
                  [c \in DOMAIN rows[i] \cup {"ratio"} |->
                     IF c = "ratio" THEN truediv(rows[i].water.v, rows[i].feed.v)
                     ELSE rows[i][c]]]
    IN  IF \E i \in 1..Len(out) : out[i].ratio.k = "raise"
        THEN None
        ELSE Frame(out)

\* read_and_process_by_pen, from the date conversion on
ProcessByPen(table) ==
    LET conv == [i \in 1..Len(table) |->
                   [table[i] EXCEPT !.date = to_datetime(table[i].date)]]
        kept == dropna(conv, <<"date", "pen", "feed", "water">>)
        by   == <<"pen", "date">>
        keys == GroupKeys(kept, by)
        daily == [i \in 1..Len(keys) |->
                    [pen   |-> keys[i][1],
                     date  |-> keys[i][2],
                     feed  |-> IntCell(AggSum(kept, by, keys[i], "feed")),
                     water |-> IntCell(AggSum(kept, by, keys[i], "water"))]]
    IN  WithRatio(sort_values(daily, by))

\* read_and_process_file, from the date conversion on
ProcessFile(table) ==
    LET conv == [i \in 1..Len(table) |->
                   [table[i] EXCEPT !.date = to_datetime(table[i].date)]]
        by   == <<"date">>
        keys == GroupKeys(conv, by)
        daily == [i \in 1..Len(keys) |->
                    [date  |-> keys[i][1],
                     feed  |-> AggFirst(conv, by, keys[i], "feed"),
                     water |-> AggFirst(conv, by, keys[i], "water")]]
        kept == dropna(daily, <<"date", "feed", "water">>)
    IN  WithRatio(sort_values(kept, by))

-----------------------------------------------------------------------------
(* Feeding tables *)

Days == { FirstDay + i : i \in 0..(MaxDay - 1) }

DateCells == {NaN, Str} \cup { Timestamp(d, t) : d \in Days, t \in 0..MaxTod }

PenCells == {NaN} \cup { IntCell(p) : p \in 1..MaxPen }

QtyCells == {NaN} \cup { IntCell(q) : q \in 0..MaxQty }

FeedingRows == [date : DateCells, pen : PenCells, feed : QtyCells, water : QtyCells]

SeqsUpTo(S, n) == UNION { [1..m -> S] : m \in 0..n }

FeedingTables == SeqsUpTo(FeedingRows, MaxRows)

-----------------------------------------------------------------------------
(* Specification of the two aggregation modes *)

\* the variables of the functions a specification does not run
AggIdle == df = <<>> /\ pen_data = NotRun /\ unit_data = NotRun
AccIdle == acc_sheet = [present |-> FALSE, cells |-> <<>>] /\ accident_dates = NotRun
SheetIdle ==
    /\ sheet1 = [rows |-> <<>>, rest |-> "object", missing |-> "none"]
    /\ transfer_sale = [status |-> "notrun", transfer |-> <<>>, sale |-> <<>>]
    /\ treatment_dates = [status |-> "notrun", dict |-> <<>>]
SerialIdle == date_num = NaN /\ date = NaT
StdIdle ==
    /\ std_sheet = [henan |-> FALSE, rows |-> <<>>]
    /\ standards = NotRun
    /\ age = 0
    /\ std_feed = [k |-> "notrun", v |-> 0]

NoChart ==
    [status |-> "notrun", ages |-> <<>>, standard_feed |-> None,
     standard_water |-> None, standard_dates |-> None, lines |-> 0]
CurveIdle ==
    /\ dates = <<>>
    /\ total_head_count = [k |-> "none", v |-> 0]
    /\ start_age = 0
    /\ end_age = 0
    /\ chart = NoChart
Unresolved == [status |-> "notrun", date |-> "", pen |-> "", feed |-> "", water |-> ""]
ColIdle == columns = <<>> /\ pen_cols = Unresolved /\ unit_cols = Unresolved
NoPenChart ==
    [status |-> "notrun", pen |-> 0, accidents |-> <<>>, transfers |-> <<>>,
     sales |-> <<>>, treatments |-> <<>>]
EvIdle == pen_number = 0 /\ pen_chart = NoPenChart
DrvIdle ==
    /\ pc = "idle"
    /\ file_exists = FALSE
    /\ chart_raises = {}
    /\ target_pens = <<>>
    /\ charts = <<>>
FileIdle == files = <<>> /\ file_idx = 0 /\ outcomes = <<>>
LateIdle == CurveIdle /\ ColIdle /\ EvIdle /\ DrvIdle /\ FileIdle

InitAgg ==
    /\ df \in FeedingTables
    /\ pen_data = NotRun
    /\ unit_data = NotRun
    /\ AccIdle /\ SheetIdle /\ SerialIdle /\ StdIdle /\ LateIdle

ReadAndProcessByPen ==
    /\ pen_data = NotRun
    /\ pen_data' = ProcessByPen(df)
    /\ UNCHANGED <<df, unit_data, accVars, sheetVars, serialVars, stdVars, lateVars>>

ReadAndProcessFile ==
    /\ unit_data = NotRun
    /\ unit_data' = ProcessFile(df)
    /\ UNCHANGED <<df, pen_data, accVars, sheetVars, serialVars, stdVars, lateVars>>

NextAgg ==
    \/ ReadAndProcessByPen
    \/ ReadAndProcessFile

SpecAgg == InitAgg /\ [][NextAgg]_vars


-----------------------------------------------------------------------------
(* Claims about the aggregation *)

RECURSIVE SumOver(_, _, _)
SumOver(I, table, col) ==
    IF I = {} THEN 0
    ELSE LET i == CHOOSE x \in I : TRUE
         IN  table[i][col].v + SumOver(I \ {i}, table, col)

Min(I) == CHOOSE x \in I : \A y \in I : x <= y

\* a feeding record with a parsed date, an enclosure id, feed and water
Complete(r) ==
    r.date.k = "ts" /\ notna(r.pen) /\ notna(r.feed) /\ notna(r.water)

CompleteRows == { j \in 1..Len(df) : Complete(df[j]) }

\* the complete records of the group of output row o
GroupOf(o) == { j \in CompleteRows : df[j].pen = o.pen /\ df[j].date = o.date }

Sentinels == {"inf", "-inf", "nan"}

\* C1: in per-enclosure mode every output row carries the exact sum of the
\* feed and of the water of all valid input records of its group
\* (enclosure, date); every valid record has its row (none is dropped) and
\* it is in one group only (none is counted twice).
C1_GroupSumsExact ==
    pen_data.status # "notrun" =>
        /\ pen_data.status = "ok"
        /\ \A i \in 1..Len(pen_data.rows) :
              LET o == pen_data.rows[i]
              IN  /\ GroupOf(o) # {}
                  /\ o.feed = IntCell(SumOver(GroupOf(o), df, "feed"))
                  /\ o.water = IntCell(SumOver(GroupOf(o), df, "water"))
        /\ \A j \in CompleteRows :
              Cardinality({ i \in 1..Len(pen_data.rows) :
                              j \in GroupOf(pen_data.rows[i]) }) = 1

\* two valid records of one group were added up
C1_Witness ==
    /\ pen_data.status = "ok"
    /\ \E i \in 1..Len(pen_data.rows) :
          /\ Cardinality(GroupOf(pen_data.rows[i])) = 2
          /\ pen_data.rows[i].feed.v = 2
          /\ pen_data.rows[i].water.v = 2

\* C2: the per-enclosure aggregate has at most one row per (enclosure id,
\* calendar date): two records of one enclosure whose timestamps fall on the
\* same calendar day end up in the same output row.
C2_OneRowPerPenAndDay ==
    pen_data.status = "ok" =>
        \A i, j \in 1..Len(pen_data.rows) :
            ( /\ pen_data.rows[i].pen = pen_data.rows[j].pen
              /\ pen_data.rows[i].date.v = pen_data.rows[j].date.v ) => i = j

RatioOfRow(o) ==
    IF o.feed.v = 0
    THEN o.ratio.k \in Sentinels
    ELSE /\ o.ratio.k = "num"
         /\ o.ratio.n * o.feed.v = o.water.v * o.ratio.d
         /\ o.ratio.d # 0

\* C3: in both modes the ratio of every output row is total_water /
\* total_feed of that row; a row whose total_feed is 0 is still returned,
\* with a non-numeric sentinel as its ratio, and the aggregate is never
\* replaced by None because of it.
C3_RatioAfterAggregation ==
    /\ pen_data.status # "notrun" =>
          /\ pen_data.status = "ok"
          /\ \A i \in 1..Len(pen_data.rows) : RatioOfRow(pen_data.rows[i])
          /\ \A j \in CompleteRows :
                \E i \in 1..Len(pen_data.rows) : j \in GroupOf(pen_data.rows[i])
    /\ unit_data.status # "notrun" =>
          /\ unit_data.status = "ok"
          /\ \A i \in 1..Len(unit_data.rows) : RatioOfRow(unit_data.rows[i])
          /\ \A j \in CompleteRows :
                \E i \in 1..Len(unit_data.rows) :
                    unit_data.rows[i].date = df[j].date

\* both modes returned a row with total_feed = 0, whose ratio is a sentinel,
\* next to a row with a numeric ratio
C3_Witness ==
    /\ pen_data.status = "ok"
    /\ unit_data.status = "ok"
    /\ \E i \in 1..Len(pen_data.rows) :
          /\ pen_data.rows[i].feed.v = 0
          /\ pen_data.rows[i].ratio.k = "inf"
    /\ \E i \in 1..Len(pen_data.rows) :
          /\ pen_data.rows[i].feed.v = 1
          /\ pen_data.rows[i].ratio = [k |-> "num", n |-> 1, d |-> 1]
    /\ \E i \in 1..Len(unit_data.rows) :
          /\ unit_data.rows[i].feed.v = 0
          /\ unit_data.rows[i].ratio.k \in Sentinels

\* the rows of a date that carry the date, feed and water
UnitComplete(d) ==
    { j \in 1..Len(df) : df[j].date = d /\ notna(df[j].feed) /\ notna(df[j].water) }

\* the rows of a date in which column col is present
Present(d, col) == { j \in 1..Len(df) : df[j].date = d /\ notna(df[j][col]) }

PenModeUsesCompleteRowsOnly ==
    pen_data.status # "notrun" =>
        /\ pen_data.status = "ok"
        /\ \A i \in 1..Len(pen_data.rows) : GroupOf(pen_data.rows[i]) # {}
        /\ SumOver(1..Len(pen_data.rows), pen_data.rows, "feed")
             = SumOver(CompleteRows, df, "feed")
        /\ SumOver(1..Len(pen_data.rows), pen_data.rows, "water")
             = SumOver(CompleteRows, df, "water")

\* C4 as stated: in both modes a row missing a required field is removed
\* before grouping, so the output is built from complete rows only (in unit
\* mode each output row carries the values of the first complete row of its
\* date).
C4_PartialRowsRemovedBeforeGrouping ==
    /\ PenModeUsesCompleteRowsOnly
    /\ unit_data.status # "notrun" =>
          \A i \in 1..Len(unit_data.rows) :
              LET o == unit_data.rows[i]
              IN  /\ UnitComplete(o.date) # {}
                  /\ o.feed = df[Min(UnitComplete(o.date))].feed
                  /\ o.water = df[Min(UnitComplete(o.date))].water

\* C4 as amended: in per-enclosure mode the rows missing a required field
\* are removed before grouping and contribute nothing; in unit mode only the
\* rows without a date are left out of the grouping, each column takes the
\* first present value of its date, and a date is dropped after grouping
\* when a column has no present value; no missing value counts as zero.
C4_PartialRows ==
    /\ PenModeUsesCompleteRowsOnly
    /\ unit_data.status # "notrun" =>
          /\ unit_data.status = "ok"
          /\ \A i \in 1..Len(unit_data.rows) :
                LET o == unit_data.rows[i]
                IN  /\ o.date.k = "ts"
                    /\ Present(o.date, "feed") # {}
                    /\ Present(o.date, "water") # {}
                    /\ o.feed = df[Min(Present(o.date, "feed"))].feed
                    /\ o.water = df[Min(Present(o.date, "water"))].water
          /\ \A j \in 1..Len(df) :
                ( /\ df[j].date.k = "ts"
                  /\ Present(df[j].date, "feed") # {}
                  /\ Present(df[j].date, "water") # {} )
                => \E i \in 1..Len(unit_data.rows) :
                      unit_data.rows[i].date = df[j].date

\* a table with a row missing its feed: the per-enclosure aggregate ignores
\* the row, the unit aggregate takes its water
C4_Witness ==
    /\ pen_data.status = "ok"
    /\ unit_data.status = "ok"
    /\ Len(df) = 2
    /\ df[1].date = df[2].date
    /\ df[1].pen = df[2].pen
    /\ df[1].feed = NaN /\ df[1].water = IntCell(1)
    /\ df[2].feed = IntCell(1) /\ df[2].water = IntCell(0)
    /\ Len(pen_data.rows) = 1 /\ pen_data.rows[1].water = IntCell(0)
    /\ Len(unit_data.rows) = 1 /\ unit_data.rows[1].water = IntCell(1)


-----------------------------------------------------------------------------
(* Event extraction: read_accident_dates *)

\* a step that keeps every value, repeated or not
keep_all(list) == list

\* Series.unique(): the values in order of first appearance
RECURSIVE unique(_)
unique(list) ==
    IF list = <<>> THEN <<>>
    ELSE LET init == unique(SubSeq(list, 1, Len(list) - 1))
             x == list[Len(list)]
         IN  IF \E i \in 1..Len(init) : init[i] = x THEN init ELSE Append(init, x)

RECURSIVE InsertCell(_, _)
InsertCell(x, list) ==
    IF list = <<>> THEN <<x>>
    ELSE IF CellLess(x, Head(list))
         THEN <<x>> \o list
         ELSE <<Head(list)>> \o InsertCell(x, Tail(list))

\* sorted(list) of Timestamps
RECURSIVE sorted(_)
sorted(list) ==
    IF list = <<>> THEN <<>>
    ELSE InsertCell(list[Len(list)], sorted(SubSeq(list, 1, Len(list) - 1)))

\* read_accident_dates on the first sheet: present says whether the sheet
\* has a column '事故日期', cells are the cells of that column
ExtractAccidentDates(sheet) ==
    IF ~sheet.present
    THEN Frame(<<>>)
    ELSE LET conv == [i \in 1..Len(sheet.cells) |-> to_datetime(sheet.cells[i])]
             kept == SelectSeq(conv, notna)
             days == unique([i \in 1..Len(kept) |-> normalize(kept[i])])
         IN  Frame(sorted(days))

AccidentCells == {NaN, Str} \cup { Timestamp(d, t) : d \in Days, t \in 0..MaxTod }

InitAccident ==
    /\ acc_sheet \in [present : BOOLEAN, cells : SeqsUpTo(AccidentCells, MaxRows + 1)]
    /\ accident_dates = NotRun
    /\ AggIdle /\ SheetIdle /\ SerialIdle /\ StdIdle /\ LateIdle

ReadAccidentDates ==
    /\ accident_dates = NotRun
    /\ accident_dates' = ExtractAccidentDates(acc_sheet)
    /\ UNCHANGED <<acc_sheet, aggVars, sheetVars, serialVars, stdVars, lateVars>>

NextAccident == ReadAccidentDates

SpecAccident == InitAccident /\ [][NextAccident]_vars

-----------------------------------------------------------------------------
(* Event extraction: the serial dates of Sheet1 *)

\* a serial-date epoch one day later, the day before 1900-01-01
lotus_epoch == [year |-> 1899, month |-> 12, day |-> 31]

\* excel_epoch = datetime(1899, 12, 30)
excel_epoch == [year |-> 1899, month |-> 12, day |-> 30]

\* int(date_num): a fraction of a day is cut off
int(c) == c.v

\* pd.Timestamp((excel_epoch + timedelta(days=int(date_num))).date())
excel_date(c) ==
    normalize(Timestamp(ymd2ord(excel_epoch.year, excel_epoch.month, excel_epoch.day)
                          + int(c), 0))

\* dtype pandas gives a column of the sheet: integers alone make int64, a
\* blank cell or a fraction make float64, text makes object
ColDtype(rows, col) ==
    IF \E i \in 1..Len(rows) : rows[i][col].k \in {"str", "ts"} THEN "object"
    ELSE IF \A i \in 1..Len(rows) : rows[i][col].k = "int" THEN "int64"
    ELSE "float64"

\* dtype of the row Series iterrows() yields: the common dtype of the columns
\* cols the function reads and of the other columns of the sheet (rest)
RowDtype(sheet, cols) ==
    LET ds == { ColDtype(sheet.rows, c) : c \in cols } \cup {sheet.rest}
    IN  IF ds = {"int64"} THEN "int64"
        ELSE IF "object" \notin ds THEN "float64"
        ELSE "object"

\* type of the value row[col] that iterrows() hands to the loop body
PyType(sheet, cols, i, col) ==
    LET c  == sheet.rows[i][col]
        rd == RowDtype(sheet, cols)
        cd == ColDtype(sheet.rows, col)
    IN  IF rd = "int64" THEN "numpy.int64"
        ELSE IF rd = "float64" THEN "numpy.float64"
        ELSE IF c.k = "str" THEN "str"
        ELSE IF cd = "int64" \/ (cd = "object" /\ c.k = "int") THEN "int"
        ELSE "float"

\* isinstance(date_num, (int, float)): numpy.float64 is a float,
\* numpy.int64 is not an int
isinstance_int_float(pytype) == pytype \in {"int", "float", "numpy.float64"}

\* an isinstance test that also accepts numpy integers
isinstance_number(pytype) ==
    pytype \in {"int", "float", "numpy.float64", "numpy.int64"}

\* df[col].notna() & (df[col] != 0)
Selected(c) == notna(c) /\ ~(c.k = "int" /\ c.v = 0)

\* the indices of the rows df[df[col].notna() & (df[col] != 0)], in order
SelectedRows(sheet, col) ==
    SelectSeq([i \in 1..Len(sheet.rows) |-> i],
              LAMBDA i : Selected(sheet.rows[i][col]))

\* the test of the loop body on the row's date
DateAccepted(sheet, cols, i) ==
    /\ notna(sheet.rows[i].date)
    /\ isinstance_int_float(PyType(sheet, cols, i, "date"))

\* one of the two loops of read_transfer_and_sale_dates
CollectDates(sheet, cols, col) ==
    LET sel == SelectedRows(sheet, col)
        acc == SelectSeq(sel, LAMBDA i : DateAccepted(sheet, cols, i))
    IN  [j \in 1..Len(acc) |-> excel_date(sheet.rows[acc[j]].date)]

NoDates == [status |-> "ok", transfer |-> <<>>, sale |-> <<>>]

\* read_transfer_and_sale_dates raises inside its try block: df['转出'],
\* df['销售'] or row['日期'] names a column that is not in the sheet
TransferSaleRaises(sheet) ==
    \/ sheet.missing = "transfer"
    \/ sheet.missing = "date" /\ SelectedRows(sheet, "transfer") # <<>>
    \/ sheet.missing = "sale"
    \/ sheet.missing = "date" /\ SelectedRows(sheet, "sale") # <<>>

\* an extraction with one try block for each event kind: a kind whose loop
\* raises is empty, the other keeps its dates
transfer_sale_partial(sheet) ==
    LET cols == {"date", "transfer", "sale"} \ {sheet.missing}
        one(col) ==
            IF sheet.missing = col
                 \/ (sheet.missing = "date" /\ SelectedRows(sheet, col) # <<>>)
            THEN <<>>
            ELSE sorted(CollectDates(sheet, cols, col))
    IN  [status |-> "ok", transfer |-> one("transfer"), sale |-> one("sale")]

\* an extraction without the try block: the exception leaves the function
transfer_sale_uncaught(sheet) ==
    IF TransferSaleRaises(sheet)
    THEN [status |-> "raise", transfer |-> <<>>, sale |-> <<>>]
    ELSE [status   |-> "ok",
          transfer |-> sorted(CollectDates(sheet, {"date", "transfer", "sale"}, "transfer")),
          sale     |-> sorted(CollectDates(sheet, {"date", "transfer", "sale"}, "sale"))]

\* read_transfer_and_sale_dates: an exception anywhere in the body is caught
\* and gives two empty lists
ExtractTransferAndSale(sheet) ==
    LET cols == {"date", "transfer", "sale"} \ {sheet.missing}
    IN  IF TransferSaleRaises(sheet)
        THEN NoDates
        ELSE [status   |-> "ok",
              transfer |-> sorted(CollectDates(sheet, cols, "transfer")),
              sale     |-> sorted(CollectDates(sheet, cols, "sale"))]

\* the loop of read_treatment_dates over the selected rows sel, from the
\* dictionary dict on; float(treatment_count) raises ValueError on text
RECURSIVE Accumulate(_, _, _, _)
Accumulate(sheet, cols, sel, dict) ==
    IF sel = <<>> THEN [status |-> "ok", dict |-> dict]
    ELSE LET i == Head(sel)
             r == sheet.rows[i]
         IN  IF ~DateAccepted(sheet, cols, i)
             THEN Accumulate(sheet, cols, Tail(sel), dict)
             ELSE IF r.treatment.k = "str"
             THEN [status |-> "raise", dict |-> <<>>]
             ELSE LET date_key == excel_date(r.date)
                      count == r.treatment.v
                      next == IF date_key \in DOMAIN dict
                              THEN [dict EXCEPT ![date_key] = @ + count]
                              ELSE [d \in DOMAIN dict \cup {date_key} |->
                                      IF d = date_key THEN count ELSE dict[d]]
                  IN  Accumulate(sheet, cols, Tail(sel), next)

EmptyDict == [d \in {} |-> 0]

\* read_treatment_dates: an exception anywhere in the body is caught and
\* gives an empty dictionary
ExtractTreatment(sheet) ==
    LET cols == {"date", "treatment"} \ {sheet.missing}
        sel == SelectedRows(sheet, "treatment")
    IN  IF sheet.missing = "treatment" \/ (sheet.missing = "date" /\ sel # <<>>)
        THEN [status |-> "ok", dict |-> EmptyDict]
        ELSE LET res == Accumulate(sheet, cols, sel, EmptyDict)
             IN  IF res.status = "raise"
                 THEN [status |-> "ok", dict |-> EmptyDict]
                 ELSE res

\* serial number of a calendar day
SerialOf(ord) ==
    ord - ymd2ord(excel_epoch.year, excel_epoch.month, excel_epoch.day)

SheetDateCells ==
    {NaN, Str, FracCell(SerialOf(FirstDay))}
        \cup { IntCell(SerialOf(d)) : d \in Days }

FlagCells == {NaN, Str} \cup { IntCell(q) : q \in 0..MaxQty }

CountCells == {NaN, Str} \cup { IntCell(q) : q \in 0..MaxCount }

Dtypes == {"int64", "float64", "object"}

InitTransferSale ==
    /\ sheet1 \in [rows : SeqsUpTo([date : SheetDateCells, transfer : FlagCells,
                                    sale : FlagCells], MaxRows),
                   rest : Dtypes,
                   missing : {"none", "date", "transfer", "sale"}]
    /\ transfer_sale = [status |-> "notrun", transfer |-> <<>>, sale |-> <<>>]
    /\ treatment_dates = [status |-> "notrun", dict |-> <<>>]
    /\ AggIdle /\ AccIdle /\ SerialIdle /\ StdIdle /\ LateIdle

ReadTransferAndSaleDates ==
    /\ transfer_sale.status = "notrun"
    /\ transfer_sale' = ExtractTransferAndSale(sheet1)
    /\ UNCHANGED <<sheet1, treatment_dates, aggVars, accVars, serialVars, stdVars, lateVars>>

NextTransferSale == ReadTransferAndSaleDates

SpecTransferSale == InitTransferSale /\ [][NextTransferSale]_vars

InitTreatment ==
    /\ sheet1 \in [rows : SeqsUpTo([date : SheetDateCells, treatment : CountCells],
                                   MaxRows + 1),
                   rest : Dtypes,
                   missing : {"none", "date", "treatment"}]
    /\ transfer_sale = [status |-> "notrun", transfer |-> <<>>, sale |-> <<>>]
    /\ treatment_dates = [status |-> "notrun", dict |-> <<>>]
    /\ AggIdle /\ AccIdle /\ SerialIdle /\ StdIdle /\ LateIdle

ReadTreatmentDates ==
    /\ treatment_dates.status = "notrun"
    /\ treatment_dates' = ExtractTreatment(sheet1)
    /\ UNCHANGED <<sheet1, transfer_sale, aggVars, accVars, serialVars, stdVars, lateVars>>

NextTreatment == ReadTreatmentDates

SpecTreatment == InitTreatment /\ [][NextTreatment]_vars

-----------------------------------------------------------------------------
(* The serial-date conversion on its own *)

NotConverted == NaT

SerialCells ==
    { IntCell(n) : n \in 0..MaxSerial }
        \cup { FracCell(n) : n \in 0..MaxSerial }
        \cup { IntCell(SerialOf(d)) : d \in Days }

InitSerial ==
    /\ date_num \in SerialCells
    /\ date = NotConverted
    /\ AggIdle /\ AccIdle /\ SheetIdle /\ StdIdle /\ LateIdle

ConvertSerial ==
    /\ date = NotConverted
    /\ date' = excel_date(date_num)
    /\ UNCHANGED <<date_num, aggVars, accVars, sheetVars, stdVars, lateVars>>

NextSerial == ConvertSerial

SpecSerial == InitSerial /\ [][NextSerial]_vars


-----------------------------------------------------------------------------
(* Claims about the event extraction *)

\* a cell that holds a number (a serial date, a count)
Numeric(c) == c.k \in {"int", "frac"}

\* rows of Sheet1 whose count in column col is present and non-zero and
\* whose date is a number
Qualifying(col) ==
    { i \in 1..Len(sheet1.rows) :
        /\ Selected(sheet1.rows[i][col])
        /\ Numeric(sheet1.rows[i].date) }

DatesOf(I) == { excel_date(sheet1.rows[i].date) : i \in I }

OnDate(I, d) == { i \in I : excel_date(sheet1.rows[i].date) = d }

Occurrences(list, d) == Cardinality({ j \in 1..Len(list) : list[j] = d })

Ascending(list) ==
    \A j \in 1..(Len(list) - 1) : ~CellLess(list[j + 1], list[j])

StrictlyAscending(list) ==
    \A j \in 1..(Len(list) - 1) : CellLess(list[j], list[j + 1])

\* C5: for a Sheet1 that has its columns and numbers as treatment counts,
\* the keys of the mapping read_treatment_dates returns are exactly the
\* canonical dates of the rows with a present, non-zero count and a numeric
\* date, and the value of a date is the sum of the counts of these rows.
C5_TreatmentSumsPerDate ==
    ( /\ treatment_dates.status = "ok"
      /\ sheet1.missing = "none"
      /\ \A i \in 1..Len(sheet1.rows) : sheet1.rows[i].treatment.k # "str" )
    => /\ DOMAIN treatment_dates.dict = DatesOf(Qualifying("treatment"))
       /\ \A d \in DOMAIN treatment_dates.dict :
             treatment_dates.dict[d]
               = SumOver(OnDate(Qualifying("treatment"), d), sheet1.rows, "treatment")

ListsDatesOf(list, col) ==
    /\ Ascending(list)
    /\ \A j \in 1..Len(list) : list[j] \in DatesOf(Qualifying(col))
    /\ \A d \in DatesOf(Qualifying(col)) :
          Occurrences(list, d) = Cardinality(OnDate(Qualifying(col), d))

\* C6: for a Sheet1 that has its columns, each of the two lists
\* read_transfer_and_sale_dates returns is the ascending list of the
\* normalized dates of exactly the rows whose count (transfer, sale) is
\* present and non-zero; a date of k such rows appears k times.
C6_TransferAndSaleDates ==
    (transfer_sale.status = "ok" /\ sheet1.missing = "none")
    => /\ ListsDatesOf(transfer_sale.transfer, "transfer")
       /\ ListsDatesOf(transfer_sale.sale, "sale")

AccidentDays ==
    IF acc_sheet.present
    THEN { acc_sheet.cells[i].v :
             i \in { j \in 1..Len(acc_sheet.cells) : acc_sheet.cells[j].k = "ts" } }
    ELSE {}

\* C7: read_accident_dates returns the accident days at day granularity,
\* without duplicates, in strictly ascending order: one entry per calendar
\* day that has an accident row, none for a missing or unparsable date.
C7_AccidentDates ==
    accident_dates.status # "notrun" =>
        /\ accident_dates.status = "ok"
        /\ StrictlyAscending(accident_dates.rows)
        /\ \A j \in 1..Len(accident_dates.rows) :
              accident_dates.rows[j].k = "ts" /\ accident_dates.rows[j].t = 0
        /\ { accident_dates.rows[j].v : j \in 1..Len(accident_dates.rows) }
             = AccidentDays

\* two accident rows of one day at different times and a row whose date
\* did not parse gave one entry
C7_Witness ==
    /\ accident_dates.status = "ok"
    /\ acc_sheet.present
    /\ \E i, j \in 1..Len(acc_sheet.cells) :
          /\ acc_sheet.cells[i].k = "ts" /\ acc_sheet.cells[j].k = "ts"
          /\ acc_sheet.cells[i].v = acc_sheet.cells[j].v
          /\ acc_sheet.cells[i].t # acc_sheet.cells[j].t
    /\ \E i \in 1..Len(acc_sheet.cells) : acc_sheet.cells[i] = Str
    /\ Len(accident_dates.rows) = 1

\* the calendar date n days after 1899-12-30, for the first months (1900
\* has no 29th of February)
EarlyDate(n) ==
    IF n < 2 THEN [year |-> 1899, month |-> 12, day |-> 30 + n]
    ELSE IF n < 33 THEN [year |-> 1900, month |-> 1, day |-> n - 1]
    ELSE IF n < 61 THEN [year |-> 1900, month |-> 2, day |-> n - 32]
    ELSE [year |-> 1900, month |-> 3, day |-> n - 60]

\* C8 as stated: offset 0 is the calendar date immediately preceding
\* 1900-01-01 and offset N is that date plus N days.
C8_EpochPrecedes1900 ==
    date # NotConverted =>
        date = Timestamp(ymd2ord(1900, 1, 1) - 1 + int(date_num), 0)

\* C8 as amended: offset 0 is 1899-12-30, two days before 1900-01-01, and a
\* non-negative offset N is that date plus N whole days (a fraction of a day
\* is discarded).
C8_SerialConversion ==
    date # NotConverted =>
        /\ date = Timestamp(ymd2ord(1900, 1, 1) - 2 + int(date_num), 0)
        /\ int(date_num) <= 91 => ord2ymd(date.v) = EarlyDate(int(date_num))

\* offset 0 was converted to 1899-12-30
C8_Witness ==
    /\ date_num = IntCell(0)
    /\ date # NotConverted
    /\ ord2ymd(date.v) = [year |-> 1899, month |-> 12, day |-> 30]
    /\ ord2ymd(date.v + 2) = [year |-> 1900, month |-> 1, day |-> 1]

\* C9: the day-granularity normalization leaves a canonical date-only value
\* unchanged: every date read_accident_dates returns is its own
\* normalization, and extracting again from the returned dates returns them.
C9_NormalizeIdempotent ==
    accident_dates.status = "ok" =>
        /\ \A j \in 1..Len(accident_dates.rows) :
              normalize(accident_dates.rows[j]) = accident_dates.rows[j]
        /\ ExtractAccidentDates([present |-> TRUE, cells |-> accident_dates.rows])
             = accident_dates

\* dates with a time of day were normalized
C9_Witness ==
    /\ accident_dates.status = "ok"
    /\ Len(accident_dates.rows) = 2
    /\ \A i \in 1..Len(acc_sheet.cells) :
          acc_sheet.cells[i].k = "ts" /\ acc_sheet.cells[i].t # 0


-----------------------------------------------------------------------------
(* The feeding standard: read_henan_standard, get_standard_feed_by_age *)

\* a row below the row marked '河南': the stage label of column 3 and the
\* cell of column 5.  The label is "range" (it holds '（start-end）'),
\* "total" (it holds '合计') or "other".
StageRow(label, a, b, feed) == [label |-> label, age_start |-> a, age_end |-> b, feed |-> feed]

Stage(a, b, f) == [age_start |-> a, age_end |-> b, daily_feed_per_head |-> f]

\* standards.sort(key=lambda x: x['age_start']): a stable sort
RECURSIVE InsertStage(_, _)
InsertStage(x, list) ==
    IF list = <<>> THEN <<x>>
    ELSE IF x.age_start < Head(list).age_start
         THEN <<x>> \o list
         ELSE <<Head(list)>> \o InsertStage(x, Tail(list))

RECURSIVE SortStages(_)
SortStages(list) ==
    IF list = <<>> THEN <<>>
    ELSE InsertStage(list[Len(list)], SortStages(SubSeq(list, 1, Len(list) - 1)))

\* the loop of read_henan_standard over the data rows
ParseStages(rows) ==
    LET ok == SelectSeq(rows, LAMBDA r : /\ r.label = "range"
                                         /\ r.feed.k = "int")
    IN  [i \in 1..Len(ok) |-> Stage(ok[i].age_start, ok[i].age_end, ok[i].feed.v)]

\* read_henan_standard: None when no row is marked '河南'
ParseHenanStandard(sheet) ==
    IF ~sheet.henan THEN None
    ELSE Frame(SortStages(ParseStages(sheet.rows)))

NoFeed == [k |-> "none", v |-> 0]
Feed(v) == [k |-> "num", v |-> v]

\* a lookup that does not fall back to the boundary stages
RECURSIVE lookup_only(_, _)
lookup_only(table, a) ==
    IF table = <<>> THEN NoFeed
    ELSE IF Head(table).age_start <= a /\ a <= Head(table).age_end
         THEN Feed(Head(table).daily_feed_per_head)
         ELSE lookup_only(Tail(table), a)

\* a loop that goes on after a match: the last stage that holds the age
RECURSIVE last_match(_, _)
last_match(table, a) ==
    IF table = <<>> THEN NoFeed
    ELSE LET st == table[Len(table)]
         IN  IF st.age_start <= a /\ a <= st.age_end
             THEN Feed(st.daily_feed_per_head)
             ELSE last_match(SubSeq(table, 1, Len(table) - 1), a)

\* the for loop of get_standard_feed_by_age: the first stage that holds
\* the age
RECURSIVE FirstMatch(_, _)
FirstMatch(table, a) ==
    IF table = <<>> THEN NoFeed
    ELSE IF Head(table).age_start <= a /\ a <= Head(table).age_end
         THEN Feed(Head(table).daily_feed_per_head)
         ELSE FirstMatch(Tail(table), a)

get_standard_feed_by_age(table, a) ==
    LET m == FirstMatch(table, a)
    IN  IF m # NoFeed THEN m
        ELSE IF table # <<>> /\ a < table[1].age_start
        THEN Feed(table[1].daily_feed_per_head)
        ELSE IF table # <<>> /\ a > table[Len(table)].age_end
        THEN Feed(table[Len(table)].daily_feed_per_head)
        ELSE NoFeed

StageRows ==
    { StageRow("range", a, b, IntCell(f)) :
        a \in 1..MaxAge, b \in 1..MaxAge, f \in 0..MaxFeed }
      \cup { StageRow("total", 0, 0, IntCell(MaxFeed)),
             StageRow("other", 0, 0, IntCell(MaxFeed)),
             StageRow("range", 1, MaxAge, NaN),
             StageRow("range", 1, MaxAge, Str) }

InitStd ==
    /\ std_sheet \in [henan : BOOLEAN, rows : SeqsUpTo(StageRows, MaxStages)]
    /\ standards = NotRun
    /\ age \in 0..(MaxAge + 1)
    /\ std_feed = [k |-> "notrun", v |-> 0]
    /\ AggIdle /\ AccIdle /\ SheetIdle /\ SerialIdle /\ LateIdle

ReadHenanStandard ==
    /\ standards = NotRun
    /\ standards' = ParseHenanStandard(std_sheet)
    /\ UNCHANGED <<std_sheet, age, std_feed, aggVars, accVars, sheetVars, serialVars, lateVars>>

\* the call of line 336, made only for a non-empty table
GetStandardFeedByAge ==
    /\ standards.status = "ok"
    /\ standards.rows # <<>>
    /\ std_feed.k = "notrun"
    /\ std_feed' = get_standard_feed_by_age(standards.rows, age)
    /\ UNCHANGED <<std_sheet, standards, age, aggVars, accVars, sheetVars, serialVars, lateVars>>

NextStd ==
    \/ ReadHenanStandard
    \/ GetStandardFeedByAge

SpecStd == InitStd /\ [][NextStd]_vars

Holds(st, a) == st.age_start <= a /\ a <= st.age_end

FirstStage == standards.rows[1]
LastStage == standards.rows[Len(standards.rows)]

\* C10 as stated: for a non-empty sorted table the result is the first
\* stage's feed for every age below the first stage's age_start and the last
\* stage's feed for every age above the last stage's age_end.
C10_ClampToBoundaryStages ==
    std_feed.k # "notrun" =>
        /\ age < FirstStage.age_start
              => std_feed = Feed(FirstStage.daily_feed_per_head)
        /\ age > LastStage.age_end
              => std_feed = Feed(LastStage.daily_feed_per_head)

\* C10 as amended: the result is the first stage's feed for every age below
\* the first stage's age_start, and the last stage's feed for every age that
\* is above the last stage's age_end, not below the first stage's age_start
\* and held by no stage; in both cases it is a stage's value, not None.
C10_Clamping ==
    std_feed.k # "notrun" =>
        /\ age < FirstStage.age_start
              => std_feed = Feed(FirstStage.daily_feed_per_head)
        /\ ( /\ age > LastStage.age_end
             /\ age >= FirstStage.age_start
             /\ \A i \in 1..Len(standards.rows) : ~Holds(standards.rows[i], age) )
              => std_feed = Feed(LastStage.daily_feed_per_head)

\* an age above the last stage was given the last stage's feed, which is
\* not the first stage's
C10_Witness ==
    /\ std_feed.k = "num"
    /\ Len(standards.rows) = 2
    /\ age > LastStage.age_end
    /\ age > FirstStage.age_end
    /\ FirstStage.daily_feed_per_head # LastStage.daily_feed_per_head
    /\ std_feed = Feed(LastStage.daily_feed_per_head)


-----------------------------------------------------------------------------
(* The standard curve of create_visualization_with_accidents *)

RECURSIVE Pow2(_)
Pow2(k) == IF k = 0 THEN 1 ELSE 2 * Pow2(k - 1)

RECURSIVE BitLength(_)
BitLength(n) == IF n = 0 THEN 0 ELSE 1 + BitLength(n \div 2)

\* the floating-point number nearest to the natural number n, ties to even.
\* The program computes in IEEE doubles (53 significant bits); the model
\* rounds in the same way to MantissaBits significant bits.
fl(n) ==
    IF n < Pow2(MantissaBits) THEN n
    ELSE LET s    == BitLength(n) - MantissaBits
             q    == n \div Pow2(s)
             r    == n % Pow2(s)
             half == Pow2(s - 1)
         IN  IF r > half \/ (r = half /\ q % 2 = 1)
             THEN (q + 1) * Pow2(s)
             ELSE q * Pow2(s)

\* a product that is exact, without the rounding of the floating point
exact_mul(a, b) == a * b

\* a * b on floats
fmul(a, b) == fl(a * b)

\* (date - first_date).days: whole days, rounded down
days_between(d, first) ==
    ((d.v - first.v) * (MaxTod + 1) + (d.t - first.t)) \div (MaxTod + 1)

\* an age that is not clamped to end_age
unclamped_age(d, first, sa, ea) == sa + days_between(d, first)

\* lines 317-327: the age of date d
current_age(d, first, sa, ea) ==
    LET a == sa + days_between(d, first)
    IN  IF a < sa THEN sa
        ELSE IF a > ea THEN ea
        ELSE a

\* if daily_feed_per_head: None and 0.0 are false
truthy(feed) == feed.k = "num" /\ feed.v # 0

Array(list) == [status |-> "ok", rows |-> list]

\* a curve whose water is twice the feed
curve_water_x2(table, head, ds, sa, ea) ==
    LET ages == [i \in 1..Len(ds) |-> current_age(ds[i], ds[1], sa, ea)]
        per  == [i \in 1..Len(ds) |-> get_standard_feed_by_age(table, ages[i])]
        kept == SelectSeq([i \in 1..Len(ds) |-> i], LAMBDA i : truthy(per[i]))
    IN  [ages  |-> ages,
         feed  |-> [j \in 1..Len(kept) |-> fmul(per[kept[j]].v, head)],
         water |-> [j \in 1..Len(kept) |-> fmul(fmul(per[kept[j]].v, 2), head)],
         dates |-> [j \in 1..Len(kept) |-> ds[kept[j]]]]

\* lines 312-345: the three lists, for a non-empty table and a head count
standard_curve(table, head, ds, sa, ea) ==
    LET ages == [i \in 1..Len(ds) |-> current_age(ds[i], ds[1], sa, ea)]
        per  == [i \in 1..Len(ds) |-> get_standard_feed_by_age(table, ages[i])]
        kept == SelectSeq([i \in 1..Len(ds) |-> i], LAMBDA i : truthy(per[i]))
    IN  [ages  |-> ages,
         feed  |-> [j \in 1..Len(kept) |-> fmul(per[kept[j]].v, head)],
         water |-> [j \in 1..Len(kept) |-> fmul(fmul(per[kept[j]].v, 3), head)],
         dates |-> [j \in 1..Len(kept) |-> ds[kept[j]]]]

\* a test that looks at the stage table only
table_only(stds, head) ==
    stds.status = "ok" /\ stds.rows # <<>>

\* if standards and total_head_count
CurveWanted(stds, head) ==
    /\ stds.status = "ok" /\ stds.rows # <<>>
    /\ head.k = "num" /\ head.v # 0

\* create_visualization_with_accidents up to the standard curves (lines
\* 280-410); the event annotations are modelled with the event filter
VisualizeWithAccidents(stds, head, ds, sa, ea) ==
    IF ds = <<>>
    THEN [NoChart EXCEPT !.status = "skipped"]
    ELSE IF ~CurveWanted(stds, head)
    THEN [NoChart EXCEPT !.status = "saved", !.lines = 5]
    ELSE LET c == standard_curve(stds.rows, head.v, ds, sa, ea)
         IN  IF c.feed = <<>>
             THEN [NoChart EXCEPT !.status = "saved", !.ages = c.ages, !.lines = 5]
             ELSE [status         |-> "saved",
                   ages           |-> c.ages,
                   standard_feed  |-> Array(c.feed),
                   standard_water |-> Array(c.water),
                   standard_dates |-> Array(c.dates),
                   lines          |-> 7]

\* the charted series may span one day more than a feeding table
Stamps == { Timestamp(d, t) : d \in FirstDay..(FirstDay + MaxDay), t \in 0..MaxTod }

\* the dates of an aggregate: distinct and ascending
DateSeries ==
    { ds \in SeqsUpTo(Stamps, MaxDates) :
        \A i \in 1..(Len(ds) - 1) : CellLess(ds[i], ds[i + 1]) }

CurveStageRows ==
    { StageRow("range", a, b, IntCell(f)) :
        a \in 1..MaxAge, b \in 1..MaxAge, f \in 0..MaxFeed }

\* None, or a count, which a float holds exactly
HeadCounts ==
    {[k |-> "none", v |-> 0]}
        \cup { [k |-> "num", v |-> h] : h \in { n \in 1..MaxHead : fl(n) = n } }

InitCurve ==
    /\ std_sheet \in [henan : BOOLEAN,
                      rows : { rs \in SeqsUpTo(CurveStageRows, MaxStages) :
                                 \A i \in 1..Len(rs) : rs[i].age_start <= rs[i].age_end }]
    /\ ~std_sheet.henan => std_sheet.rows = <<>>
    /\ standards = NotRun
    /\ age = 0
    /\ std_feed = [k |-> "notrun", v |-> 0]
    /\ dates \in DateSeries
    /\ total_head_count \in HeadCounts
    /\ start_age \in 1..2
    /\ end_age \in start_age..MaxAge
    /\ chart = NoChart
    /\ AggIdle /\ AccIdle /\ SheetIdle /\ SerialIdle /\ ColIdle /\ EvIdle /\ DrvIdle /\ FileIdle

CreateVisualizationWithAccidents ==
    /\ standards # NotRun
    /\ chart.status = "notrun"
    /\ chart' = VisualizeWithAccidents(standards, total_head_count, dates,
                                       start_age, end_age)
    /\ UNCHANGED <<dates, total_head_count, start_age, end_age,
                   aggVars, accVars, sheetVars, serialVars, stdVars, colVars, evVars, drvVars, fileVars>>

NextCurve ==
    \/ ReadHenanStandard
    \/ CreateVisualizationWithAccidents

SpecCurve == InitCurve /\ [][NextCurve]_vars


-----------------------------------------------------------------------------
(* Claims about the standard curve *)

Charted == chart.status = "saved"

PositiveFeeds ==
    \A i \in 1..Len(standards.rows) : standards.rows[i].daily_feed_per_head > 0

\* C11: with a non-empty stage table and a known head count the standard
\* curve has exactly one point for every date of the series, whatever gaps
\* the stage table has.
C11_CurveIsDense ==
    (Charted /\ CurveWanted(standards, total_head_count) /\ PositiveFeeds)
        => /\ chart.standard_dates = Array(dates)
           /\ Len(chart.standard_feed.rows) = Len(dates)
           /\ Len(chart.standard_water.rows) = Len(dates)

\* C12: without a stage table (empty, or not read) or without a head count
\* the three curve values stay None and the chart is saved with its five
\* lines, without the two standard lines.
C12_NoCurveWithoutTableOrHeadCount ==
    (chart.status # "notrun" /\ dates # <<>>
       /\ ( standards = None \/ standards.rows = <<>>
              \/ total_head_count.k = "none" ))
        => /\ chart.standard_feed = None
           /\ chart.standard_water = None
           /\ chart.standard_dates = None
           /\ chart.status = "saved"
           /\ chart.lines = 5

\* a chart was saved for a series although the head count is unknown and
\* the stage table has stages
C12_Witness ==
    /\ Charted
    /\ Len(dates) = MaxDates
    /\ standards.status = "ok" /\ standards.rows # <<>>
    /\ total_head_count.k = "none"
    /\ chart.standard_feed = None
    /\ chart.lines = 5

\* the whole days from first to d: the n with first + n days <= d < first +
\* (n + 1) days
WholeDays(d, first) ==
    LET u     == MaxTod + 1
        delta == (d.v * u + d.t) - (first.v * u + first.t)
    IN  CHOOSE n \in (0 - MaxDay - 1)..(MaxDay + 1) :
            n * u <= delta /\ delta < (n + 1) * u

Clamp(x, lo, hi) == IF x < lo THEN lo ELSE IF x > hi THEN hi ELSE x

\* C13: the age used for date d is start_age + (d - first_date) in whole
\* days, clamped to [start_age, end_age]; it lies in that interval and does
\* not decrease along the series.
C13_AgeOfDate ==
    (Charted /\ CurveWanted(standards, total_head_count))
        => /\ Len(chart.ages) = Len(dates)
           /\ \A i \in 1..Len(dates) :
                 /\ chart.ages[i] = Clamp(start_age + WholeDays(dates[i], dates[1]),
                                          start_age, end_age)
                 /\ start_age <= chart.ages[i] /\ chart.ages[i] <= end_age
           /\ \A i \in 1..(Len(dates) - 1) : chart.ages[i] <= chart.ages[i + 1]

\* a series whose last date, two whole days after the first, is clamped to
\* end_age
C13_Witness ==
    /\ Charted /\ CurveWanted(standards, total_head_count)
    /\ Len(dates) = 2
    /\ WholeDays(dates[2], dates[1]) = 2
    /\ start_age + 2 > end_age
    /\ chart.ages[2] = end_age
    /\ chart.ages[1] = start_age
    /\ start_age < end_age

\* the per-head feed of the j-th point of the curve
PerHeadFeed(j) ==
    LET i == CHOOSE k \in 1..Len(dates) : dates[k] = chart.standard_dates.rows[j]
    IN  get_standard_feed_by_age(standards.rows, chart.ages[i]).v

CurveDrawn == Charted /\ chart.standard_feed # None

EqualLengths ==
    /\ Len(chart.standard_feed.rows) = Len(chart.standard_dates.rows)
    /\ Len(chart.standard_water.rows) = Len(chart.standard_dates.rows)

-----------------------------------------------------------------------------
(* Column resolution: read_and_process_by_pen, read_and_process_file *)

\* the column names of the model, in pinyin, and the keywords each of them
\* contains ('date' is looked for in the lower-cased name):
\*   siwei riqi 饲喂日期, lanhao 栏号, danlan caishi liang 单栏采食量,
\*   danlan weiliao liang 单栏喂料量, danlan weishui liang 单栏喂水量,
\*   danlan yinshui liang 单栏饮水量, meiri caishi zongliang 每日采食总量,
\*   caishi zongliang 采食总量, meiri weishui zongliang 每日喂水总量,
\*   zhuzhi toushu 猪只头数
Keywords ==
    [ n \in {"siwei riqi", "Date", "lanhao", "danlan caishi liang",
             "danlan weiliao liang", "danlan weishui liang",
             "danlan yinshui liang", "meiri caishi zongliang",
             "caishi zongliang", "meiri weishui zongliang", "zhuzhi toushu"} |->
        CASE n = "siwei riqi"              -> {"riqi", "siwei riqi"}
          [] n = "Date"                    -> {"date"}
          [] n = "lanhao"                  -> {"lanhao", "lan"}
          [] n = "danlan caishi liang"     -> {"danlan", "lan", "caishi"}
          [] n = "danlan weiliao liang"    -> {"danlan", "lan", "weiliao", "liaoliang"}
          [] n = "danlan weishui liang"    -> {"danlan", "lan", "weishui", "shuiliang"}
          [] n = "danlan yinshui liang"    -> {"danlan", "lan", "yinshui", "shuiliang"}
          [] n = "meiri caishi zongliang"  -> {"meiri caishi zongliang", "caishi", "zongliang"}
          [] n = "caishi zongliang"        -> {"caishi", "zongliang"}
          [] n = "meiri weishui zongliang" -> {"meiri weishui zongliang", "weishui", "zongliang"}
          [] n = "zhuzhi toushu"           -> {"zhuzhi toushu", "toushu"} ]

ColumnNames == DOMAIN Keywords

\* kw in col_str
Has(col, kw) == kw \in Keywords[col]

IsDateCol(col) == Has(col, "riqi") \/ Has(col, "date") \/ Has(col, "siwei riqi")
IsPenCol(col) == Has(col, "lanhao") \/ Has(col, "lan")
IsPenFeedCol(col) ==
    Has(col, "danlan") /\ (Has(col, "caishi") \/ Has(col, "weiliao") \/ Has(col, "liaoliang"))
IsPenWaterCol(col) ==
    Has(col, "danlan") /\ (Has(col, "weishui") \/ Has(col, "yinshui") \/ Has(col, "shuiliang"))
IsUnitFeedCol(col) ==
    Has(col, "meiri caishi zongliang") \/ (Has(col, "caishi") /\ Has(col, "zongliang"))
IsUnitWaterCol(col) ==
    Has(col, "meiri weishui zongliang") \/ (Has(col, "weishui") /\ Has(col, "zongliang"))

\* the test a loop applies to a column name, by the role it looks for
Matches(col, role) ==
    CASE role = "date"       -> IsDateCol(col)
      [] role = "pen"        -> IsPenCol(col)
      [] role = "pen feed"   -> IsPenFeedCol(col)
      [] role = "pen water"  -> IsPenWaterCol(col)
      [] role = "unit feed"  -> IsUnitFeedCol(col)
      [] role = "unit water" -> IsUnitWaterCol(col)

Matching(cols, role) == { i \in 1..Len(cols) : Matches(cols[i], role) }

MinOf(S) == CHOOSE x \in S : \A y \in S : x <= y
MaxOf(S) == CHOOSE x \in S : \A y \in S : y <= x

\* a loop with break: the first column that matches, "" for None
FirstCol(cols, role) ==
    IF Matching(cols, role) = {} THEN "" ELSE cols[MinOf(Matching(cols, role))]

\* a loop without break: the assignment of the last matching column stays
LastCol(cols, role) ==
    IF Matching(cols, role) = {} THEN "" ELSE cols[MaxOf(Matching(cols, role))]

MissingColumn == [status |-> "none", date |-> "", pen |-> "", feed |-> "", water |-> ""]

\* lines 132-172 of read_and_process_by_pen
ResolveByPen(cols) ==
    LET date_col  == FirstCol(cols, "date")
        pen_col   == FirstCol(cols, "pen")
        feed_col  == LastCol(cols, "pen feed")
        water_col == LastCol(cols, "pen water")
    IN  IF date_col = "" THEN MissingColumn
        ELSE IF pen_col = "" THEN MissingColumn
        ELSE IF feed_col = "" \/ water_col = "" THEN MissingColumn
        ELSE [status |-> "ok", date |-> date_col, pen |-> pen_col,
              feed |-> feed_col, water |-> water_col]

\* lines 31-60 of read_and_process_file
ResolveUnit(cols) ==
    LET date_col  == FirstCol(cols, "date")
        feed_col  == LastCol(cols, "unit feed")
        water_col == LastCol(cols, "unit water")
    IN  IF date_col = "" THEN MissingColumn
        ELSE IF feed_col = "" \/ water_col = "" THEN MissingColumn
        ELSE [status |-> "ok", date |-> date_col, pen |-> "",
              feed |-> feed_col, water |-> water_col]

\* header rows: pandas keeps the column names distinct
Headers ==
    { h \in SeqsUpTo(ColumnNames, MaxCols) :
        \A i, j \in 1..Len(h) : i # j => h[i] # h[j] }

InitColumns ==
    /\ columns \in Headers
    /\ pen_cols = Unresolved
    /\ unit_cols = Unresolved
    /\ AggIdle /\ AccIdle /\ SheetIdle /\ SerialIdle /\ StdIdle /\ CurveIdle /\ EvIdle /\ DrvIdle /\ FileIdle

ResolveColumnsByPen ==
    /\ pen_cols = Unresolved
    /\ pen_cols' = ResolveByPen(columns)
    /\ UNCHANGED <<columns, unit_cols, aggVars, accVars, sheetVars, serialVars,
                   stdVars, curveVars, evVars, drvVars, fileVars>>

ResolveColumnsUnit ==
    /\ unit_cols = Unresolved
    /\ unit_cols' = ResolveUnit(columns)
    /\ UNCHANGED <<columns, pen_cols, aggVars, accVars, sheetVars, serialVars,
                   stdVars, curveVars, evVars, drvVars, fileVars>>

NextColumns ==
    \/ ResolveColumnsByPen
    \/ ResolveColumnsUnit

SpecColumns == InitColumns /\ [][NextColumns]_vars

\* C15: for each role (date, enclosure id, per-enclosure feed, per-enclosure
\* water) the resolved column is the first column in header order whose name
\* satisfies the role's keyword predicate.
C15_FirstMatchingColumnWins ==
    pen_cols.status = "ok" =>
        /\ pen_cols.date = columns[MinOf(Matching(columns, "date"))]
        /\ pen_cols.pen = columns[MinOf(Matching(columns, "pen"))]
        /\ pen_cols.feed = columns[MinOf(Matching(columns, "pen feed"))]
        /\ pen_cols.water = columns[MinOf(Matching(columns, "pen water"))]


-----------------------------------------------------------------------------
(* The event annotations of create_visualization_by_pen *)

\* dates.min() and dates.max() of a non-empty series
date_min(ds) == CHOOSE d \in { ds[i] : i \in 1..Len(ds) } :
                    \A i \in 1..Len(ds) : d = ds[i] \/ CellLess(d, ds[i])
date_max(ds) == CHOOSE d \in { ds[i] : i \in 1..Len(ds) } :
                    \A i \in 1..Len(ds) : d = ds[i] \/ CellLess(ds[i], d)

\* date_min <= d <= date_max on Timestamps
InRange(d, ds) ==
    /\ d = date_min(ds) \/ CellLess(date_min(ds), d)
    /\ d = date_max(ds) \/ CellLess(d, date_max(ds))

\* [d for d in events if date_min <= d <= date_max]
valid_dates(events, ds) == SelectSeq(events, LAMBDA d : InRange(d, ds))

\* {d: treatment_dates[d] for d in treatment_dates if date_min <= d <= date_max}
valid_treatments(dict, ds) ==
    [d \in { x \in DOMAIN dict : InRange(x, ds) } |-> dict[d]]

\* create_visualization_by_pen: the rows of the enclosure, and on its saved
\* chart the events that are annotated
VisualizeByPen(data, p, acc, ts, treat) ==
    IF data = None \/ data.rows = <<>>
    THEN [NoPenChart EXCEPT !.status = "skipped", !.pen = p]
    ELSE LET rows == SelectSeq(data.rows, LAMBDA r : r.pen = IntCell(p))
             ds   == [i \in 1..Len(rows) |-> rows[i].date]
         IN  IF rows = <<>>
             THEN [NoPenChart EXCEPT !.status = "skipped", !.pen = p]
             ELSE [status     |-> "saved",
                   pen        |-> p,
                   accidents  |-> valid_dates(acc.rows, ds),
                   transfers  |-> valid_dates(ts.transfer, ds),
                   sales      |-> valid_dates(ts.sale, ds),
                   treatments |-> valid_treatments(treat.dict, ds)]

\* feeding tables of complete rows
ChartTables ==
    SeqsUpTo([date : { Timestamp(d, t) : d \in Days, t \in 0..MaxTod },
              pen : { IntCell(q) : q \in 1..MaxPen },
              feed : {IntCell(1)}, water : {IntCell(1)}], MaxRows)

\* the days of the events: the days of the feeding tables, the day before
\* and the day after
EventDays == { Timestamp(d, 0) : d \in (FirstDay - 1)..(FirstDay + MaxDay) }

\* event lists as the extractors return them: midnights in ascending order
EventLists == {<<>>} \cup { <<d>> : d \in EventDays }

EventDicts ==
    {EmptyDict} \cup { [d \in {e} |-> n] : e \in EventDays, n \in 1..MaxCount }

InitEvents ==
    /\ df \in ChartTables
    /\ pen_data = NotRun
    /\ unit_data = NotRun
    /\ acc_sheet = [present |-> FALSE, cells |-> <<>>]
    /\ accident_dates \in { Frame(l) : l \in EventLists }
    /\ sheet1 = [rows |-> <<>>, rest |-> "object", missing |-> "none"]
    /\ transfer_sale \in [status : {"ok"}, transfer : EventLists, sale : EventLists]
    /\ treatment_dates \in [status : {"ok"}, dict : EventDicts]
    /\ pen_number \in 1..MaxPen
    /\ pen_chart = NoPenChart
    /\ SerialIdle /\ StdIdle /\ CurveIdle /\ ColIdle /\ DrvIdle /\ FileIdle

LoadByPen ==
    /\ pen_data = NotRun
    /\ pen_data' = ProcessByPen(df)
    /\ UNCHANGED <<df, unit_data, accVars, sheetVars, serialVars, stdVars, lateVars>>

CreateVisualizationByPen ==
    /\ pen_data # NotRun
    /\ pen_chart.status = "notrun"
    /\ pen_chart' = VisualizeByPen(pen_data, pen_number, accident_dates,
                                   transfer_sale, treatment_dates)
    /\ UNCHANGED <<pen_number, aggVars, accVars, sheetVars, serialVars, stdVars,
                   curveVars, colVars, drvVars, fileVars>>

NextEvents ==
    \/ LoadByPen
    \/ CreateVisualizationByPen

SpecEvents == InitEvents /\ [][NextEvents]_vars

\* the calendar days of the rows of the charted enclosure
SeriesDays ==
    { pen_data.rows[i].date.v :
        i \in { k \in 1..Len(pen_data.rows) : pen_data.rows[k].pen = IntCell(pen_number) } }

DayInRange(d) ==
    /\ \E x \in SeriesDays : x <= d.v
    /\ \E x \in SeriesDays : d.v <= x

Elements(list) == { list[i] : i \in 1..Len(list) }

\* C19: on a saved chart an event of any kind is annotated exactly if its
\* date lies between the earliest and the latest calendar date of the
\* charted series, both included, and an annotated treatment has the count
\* it had.
C19_EventsWithinSeriesRange ==
    pen_chart.status = "saved" =>
        /\ \A d \in Elements(accident_dates.rows) :
              d \in Elements(pen_chart.accidents) <=> DayInRange(d)
        /\ \A d \in Elements(transfer_sale.transfer) :
              d \in Elements(pen_chart.transfers) <=> DayInRange(d)
        /\ \A d \in Elements(transfer_sale.sale) :
              d \in Elements(pen_chart.sales) <=> DayInRange(d)
        /\ \A d \in DOMAIN treatment_dates.dict :
              /\ d \in DOMAIN pen_chart.treatments <=> DayInRange(d)
              /\ d \in DOMAIN pen_chart.treatments
                    => pen_chart.treatments[d] = treatment_dates.dict[d]

\* the statement holds for the series whose dates are all at midnight
MidnightSeriesKeepEventsInRange ==
    (\A i \in 1..Len(pen_data.rows) : pen_data.rows[i].date.t = 0)
        => C19_EventsWithinSeriesRange


-----------------------------------------------------------------------------
(* The script visualize_by_pen_with_acci.py, lines 413-444 *)

\* a loader that aggregates whatever columns it has
load_any(cols, table) == ProcessByPen(table)

\* read_and_process_by_pen: the column resolution, then the aggregation
read_and_process_by_pen(cols, table) ==
    IF ResolveByPen(cols).status = "none" THEN None ELSE ProcessByPen(table)

\* sorted(data['栏号'].unique()), then [p for p in all_pens if 1 <= p <= 28]
TargetPens(data) ==
    LET ps     == { data.rows[i].pen : i \in 1..Len(data.rows) }
        sorted_ == SortKeys({ <<p>> : p \in ps })
        all_pens == [i \in 1..Len(sorted_) |-> sorted_[i][1].v]
    IN  SelectSeq(all_pens, LAMBDA q : 1 <= q /\ q <= 28)

GoodHeader == <<"siwei riqi", "lanhao", "danlan caishi liang", "danlan weishui liang">>

DriverHeaders ==
    { GoodHeader,
      <<"lanhao", "danlan caishi liang", "danlan weishui liang">>,
      <<"siwei riqi", "zhuzhi toushu", "meiri caishi zongliang">>,
      <<"siwei riqi", "lanhao", "danlan caishi liang">> }

DriverTables ==
    SeqsUpTo([date : {Timestamp(FirstDay, 0), Timestamp(FirstDay + 1, 0)},
              pen : { IntCell(q) : q \in 1..MaxPen },
              feed : {IntCell(1)}, water : {IntCell(1)}], MaxRows)

DriverAccidentSheets ==
    { [present |-> FALSE, cells |-> <<>>],
      [present |-> TRUE, cells |-> <<>>],
      [present |-> TRUE, cells |-> <<Str>>],
      [present |-> TRUE, cells |-> <<Timestamp(FirstDay, 1)>>] }

Sheet1Row(d, n) ==
    [date |-> d, transfer |-> IntCell(1), sale |-> NaN, treatment |-> n]

DriverSheet1Rows ==
    { <<Sheet1Row(IntCell(SerialOf(FirstDay)), IntCell(1))>>,
      <<Sheet1Row(IntCell(SerialOf(FirstDay)), Str)>>,
      <<Sheet1Row(Str, IntCell(1))>> }

InitPenDriver ==
    /\ pc = "accidents"
    /\ acc_sheet \in DriverAccidentSheets
    /\ accident_dates = NotRun
    /\ sheet1 \in [rows : DriverSheet1Rows, rest : {"float64"},
                   missing : {"none", "date", "transfer", "sale", "treatment"}]
    /\ transfer_sale = [status |-> "notrun", transfer |-> <<>>, sale |-> <<>>]
    /\ treatment_dates = [status |-> "notrun", dict |-> <<>>]
    /\ file_exists \in BOOLEAN
    /\ columns \in DriverHeaders
    /\ pen_cols = Unresolved
    /\ unit_cols = Unresolved
    /\ df \in DriverTables
    /\ pen_data = NotRun
    /\ unit_data = NotRun
    /\ chart_raises \in SUBSET (1..MaxPen)
    /\ target_pens = <<>>
    /\ charts = <<>>
    /\ SerialIdle /\ StdIdle /\ CurveIdle /\ EvIdle /\ FileIdle

\* line 416
DriverReadAccidentDates ==
    /\ pc = "accidents"
    /\ accident_dates' = ExtractAccidentDates(acc_sheet)
    /\ pc' = "transfers"
    /\ UNCHANGED <<acc_sheet, aggVars, sheetVars, serialVars, stdVars, curveVars,
                   colVars, evVars, file_exists, chart_raises, target_pens, charts, fileVars>>

\* line 417
DriverReadTransferAndSaleDates ==
    /\ pc = "transfers"
    /\ transfer_sale' = ExtractTransferAndSale(sheet1)
    /\ pc' = "treatments"
    /\ UNCHANGED <<sheet1, treatment_dates, aggVars, accVars, serialVars, stdVars,
                   curveVars, colVars, evVars, file_exists, chart_raises,
                   target_pens, charts, fileVars>>

\* line 418
DriverReadTreatmentDates ==
    /\ pc = "treatments"
    /\ treatment_dates' = ExtractTreatment(sheet1)
    /\ pc' = "load"
    /\ UNCHANGED <<sheet1, transfer_sale, aggVars, accVars, serialVars, stdVars,
                   curveVars, colVars, evVars, file_exists, chart_raises,
                   target_pens, charts, fileVars>>

\* lines 423-431 and 442-444: the file is loaded if it exists, and the
\* enclosures to chart are listed if the loader returned an aggregate
DriverLoad ==
    /\ pc = "load"
    /\ LET data == IF file_exists THEN read_and_process_by_pen(columns, df)
                   ELSE NotRun
       IN  /\ pen_data' = data
           /\ IF data.status = "ok"
              THEN /\ target_pens' = TargetPens(data)
                   /\ pc' = "charts"
              ELSE /\ target_pens' = <<>>
                   /\ pc' = "done"
    /\ UNCHANGED <<df, unit_data, accVars, sheetVars, serialVars, stdVars,
                   curveVars, colVars, evVars, file_exists, chart_raises, charts, fileVars>>

\* lines 436-438: one pass of the loop; nothing catches an exception of
\* create_visualization_by_pen, so it ends the script
DriverChart ==
    /\ pc = "charts"
    /\ target_pens # <<>>
    /\ IF Head(target_pens) \in chart_raises
       THEN /\ pc' = "crashed"
            /\ UNCHANGED <<target_pens, charts, fileVars>>
       ELSE /\ charts' = Append(charts,
                            VisualizeByPen(pen_data, Head(target_pens),
                                           accident_dates, transfer_sale,
                                           treatment_dates))
            /\ target_pens' = Tail(target_pens)
            /\ pc' = "charts"
    /\ UNCHANGED <<aggVars, accVars, sheetVars, serialVars, stdVars, curveVars,
                   colVars, evVars, file_exists, chart_raises, fileVars>>

\* line 440: the loop is over
DriverFinish ==
    /\ pc = "charts"
    /\ target_pens = <<>>
    /\ pc' = "done"
    /\ UNCHANGED <<aggVars, accVars, sheetVars, serialVars, stdVars, curveVars,
                   colVars, evVars, file_exists, chart_raises, target_pens, charts, fileVars>>

NextPenDriver ==
    \/ DriverReadAccidentDates
    \/ DriverReadTransferAndSaleDates
    \/ DriverReadTreatmentDates
    \/ DriverLoad
    \/ DriverChart
    \/ DriverFinish

SpecPenDriver == InitPenDriver /\ [][NextPenDriver]_vars


-----------------------------------------------------------------------------
(* Claims about the script *)

AfterLoad == pc \in {"charts", "done", "crashed"}
AfterEvents == pc \in {"load", "charts", "done", "crashed"}

SomeRoleUnresolved ==
    \/ Matching(columns, "date") = {}
    \/ Matching(columns, "pen") = {}
    \/ Matching(columns, "pen feed") = {}
    \/ Matching(columns, "pen water") = {}

\* C16: when a required column (date, enclosure id, feed, water) does not
\* resolve, the loader returns None without an aggregate, and the script
\* charts nothing for the file.
C16_MissingColumnNoAggregate ==
    (AfterLoad /\ file_exists /\ SomeRoleUnresolved)
        => /\ pen_data = None
           /\ target_pens = <<>>
           /\ charts = <<>>
           /\ pc = "done"

\* the script is over for a file of MaxRows rows without a water column
C16_Witness ==
    /\ pc = "done" /\ file_exists
    /\ Matching(columns, "pen water") = {}
    /\ Matching(columns, "date") # {}
    /\ Len(df) = MaxRows
    /\ pen_data = None
    /\ charts = <<>>

PensOf(data) == { data.rows[i].pen.v : i \in 1..Len(data.rows) }

Charted_(p) == \E i \in 1..Len(charts) : charts[i].pen = p /\ charts[i].status = "saved"

\* C17: a missing or malformed column of the event source gives the empty
\* result for its event kind, every extractor returns, and the script goes
\* on: it loads the feeding file and, when it ends, has a chart of every
\* enclosure.
C17_EventFailureNotFatal ==
    /\ pc \notin {"accidents"} =>
          /\ accident_dates.status = "ok"
          /\ (~acc_sheet.present \/ \A i \in 1..Len(acc_sheet.cells) :
                                       acc_sheet.cells[i].k # "ts")
                => accident_dates.rows = <<>>
    /\ pc \notin {"accidents", "transfers"} =>
          /\ transfer_sale.status = "ok"
          /\ sheet1.missing \in {"date", "transfer"} => transfer_sale.transfer = <<>>
          /\ sheet1.missing \in {"date", "sale"} => transfer_sale.sale = <<>>
          /\ (\A i \in 1..Len(sheet1.rows) : ~Numeric(sheet1.rows[i].date))
                => transfer_sale.transfer = <<>> /\ transfer_sale.sale = <<>>
    /\ AfterEvents =>
          /\ treatment_dates.status = "ok"
          /\ sheet1.missing \in {"date", "treatment"} => treatment_dates.dict = EmptyDict
          /\ (\E i \in 1..Len(sheet1.rows) : sheet1.rows[i].treatment.k = "str")
                => treatment_dates.dict = EmptyDict
    /\ pc = "crashed" => Head(target_pens) \in chart_raises
    /\ (AfterLoad /\ file_exists /\ ~SomeRoleUnresolved) => pen_data.status = "ok"
    /\ (pc = "done" /\ pen_data.status = "ok")
          => \A p \in PensOf(pen_data) : Charted_(p)

\* the script has ended with a chart of each of two enclosures although the
\* accident sheet has no date column and Sheet1 has no date column
C17_Witness ==
    /\ pc = "done"
    /\ ~acc_sheet.present
    /\ sheet1.missing = "date"
    /\ accident_dates.rows = <<>>
    /\ transfer_sale.transfer = <<>>
    /\ treatment_dates.dict = EmptyDict
    /\ Len(charts) = 2
    /\ Charted_(1) /\ Charted_(2)

\* C18: an error raised for one enclosure, in loading, aggregation or chart
\* generation, does not end the script: when the script is over, every
\* enclosure whose chart generation does not raise has its chart.
C18_FailureIsolation ==
    (pc \in {"done", "crashed"} /\ pen_data.status = "ok")
        => \A p \in PensOf(pen_data) : p \notin chart_raises => Charted_(p)


-----------------------------------------------------------------------------
(* Claims about the unit-level aggregation *)

\* the input rows that carry date d, in input order
RowsOfDate(d) == { j \in 1..Len(df) : df[j].date = d }

DistinctDates ==
    \A i, j \in 1..Len(unit_data.rows) :
        i # j => unit_data.rows[i].date # unit_data.rows[j].date

\* C20 as stated: in unit-level mode the output has one row per date, whose
\* feed and water are both the values of the first input row that carries
\* the date.
C20_ValuesOfFirstRowOfDate ==
    unit_data.status = "ok" =>
        /\ DistinctDates
        /\ \A i \in 1..Len(unit_data.rows) :
              LET o == unit_data.rows[i]
              IN  /\ o.feed = df[Min(RowsOfDate(o.date))].feed
                  /\ o.water = df[Min(RowsOfDate(o.date))].water

\* C20 as amended: the output has at most one row per date; its feed is the
\* first present feed and its water the first present water among the input
\* rows that carry the date, in input order, so they are the values of the
\* first row of the date whenever that row has both, and a value is never
\* replaced by the value of a later row.
C20_FirstPresentValuesOfDate ==
    unit_data.status = "ok" =>
        /\ DistinctDates
        /\ \A i \in 1..Len(unit_data.rows) :
              LET o     == unit_data.rows[i]
                  first == Min(RowsOfDate(o.date))
              IN  /\ o.feed = df[Min(Present(o.date, "feed"))].feed
                  /\ o.water = df[Min(Present(o.date, "water"))].water
                  /\ (notna(df[first].feed) /\ notna(df[first].water))
                        => o.feed = df[first].feed /\ o.water = df[first].water

\* two rows of one date with different feed and different water: the output
\* row has the values of the first
C20_Witness ==
    /\ unit_data.status = "ok"
    /\ Len(df) = 2
    /\ df[1].date = df[2].date
    /\ df[1].feed = IntCell(1) /\ df[2].feed = IntCell(0)
    /\ df[1].water = IntCell(0) /\ df[2].water = IntCell(1)
    /\ Len(unit_data.rows) = 1
    /\ unit_data.rows[1].feed = IntCell(1)
    /\ unit_data.rows[1].water = IntCell(0)


-----------------------------------------------------------------------------
(* Claims about the order of the aggregate and of the stage table *)

\* a date-time before another
Before(a, b) == a.v < b.v \/ (a.v = b.v /\ a.t < b.t)

\* C21: the per-enclosure aggregate is in ascending order of (enclosure id,
\* date), the unit aggregate in ascending order of date, so the rows of one
\* enclosure are in ascending order of date.
C21_AggregateSorted ==
    /\ pen_data.status = "ok" =>
          /\ \A i \in 1..(Len(pen_data.rows) - 1) :
                LET a == pen_data.rows[i]
                    b == pen_data.rows[i + 1]
                IN  \/ a.pen.v < b.pen.v
                    \/ a.pen.v = b.pen.v /\ Before(a.date, b.date)
          /\ \A i, j \in 1..Len(pen_data.rows) :
                (i < j /\ pen_data.rows[i].pen = pen_data.rows[j].pen)
                   => Before(pen_data.rows[i].date, pen_data.rows[j].date)
    /\ unit_data.status = "ok" =>
          \A i \in 1..(Len(unit_data.rows) - 1) :
              Before(unit_data.rows[i].date, unit_data.rows[i + 1].date)

\* a table whose second row precedes its first, by enclosure and by date:
\* both aggregates have the two rows in the other order
C21_Witness ==
    /\ Len(df) = 2
    /\ df[1].pen = IntCell(2) /\ df[2].pen = IntCell(1)
    /\ df[1].date.k = "ts" /\ df[2].date.k = "ts"
    /\ Before(df[2].date, df[1].date)
    /\ pen_data.status = "ok" /\ Len(pen_data.rows) = 2
    /\ pen_data.rows[1].pen = IntCell(1)
    /\ unit_data.status = "ok" /\ Len(unit_data.rows) = 2
    /\ unit_data.rows[1].date = df[2].date

\* the stages of the table that hold the age
Holding == { i \in 1..Len(standards.rows) : Holds(standards.rows[i], age) }

\* C22: the stage table is in ascending order of age_start, and when one or
\* more stages hold the age the result is the per-head feed of the first of
\* them in table order.
C22_FirstMatchingStage ==
    /\ standards.status = "ok" =>
          \A i \in 1..(Len(standards.rows) - 1) :
              standards.rows[i].age_start <= standards.rows[i + 1].age_start
    /\ (std_feed.k # "notrun" /\ Holding # {})
          => std_feed = Feed(standards.rows[Min(Holding)].daily_feed_per_head)

\* two stages with different feeds hold the age; the result is the feed of
\* the first, which the sheet lists second
C22_Witness ==
    /\ std_feed.k = "num"
    /\ Len(standards.rows) = 2
    /\ Holding = {1, 2}
    /\ standards.rows[1].daily_feed_per_head # standards.rows[2].daily_feed_per_head
    /\ std_feed = Feed(standards.rows[1].daily_feed_per_head)
    /\ std_sheet.rows[2].age_start = standards.rows[1].age_start
    /\ std_sheet.rows[1].age_start = standards.rows[2].age_start
    /\ standards.rows[1].age_start < standards.rows[2].age_start


-----------------------------------------------------------------------------
(* Claims about the failure of the transfer and sale extraction, and about
   the resolved columns *)

\* C24: when the transfer column, the sale column or the date column is
\* missing, read_transfer_and_sale_dates returns two empty lists: the dates
\* of the kind whose column is there are discarded with the other's.
C24_TransferAndSaleFailTogether ==
    (transfer_sale.status # "notrun" /\ sheet1.missing # "none")
        => /\ transfer_sale.status = "ok"
           /\ transfer_sale.transfer = <<>>
           /\ transfer_sale.sale = <<>>

\* Sheet1 has no sale column and a row whose transfer date the first loop
\* collects; both lists are empty
C24_Witness ==
    /\ transfer_sale.status = "ok"
    /\ sheet1.missing = "sale"
    /\ CollectDates(sheet1, {"date", "transfer"}, "transfer") # <<>>
    /\ transfer_sale.transfer = <<>>
    /\ transfer_sale.sale = <<>>

\* C25: whenever the four roles resolve, the columns of date, enclosure id,
\* feed and water are four different columns.
C25_ResolvedColumnsDistinct ==
    pen_cols.status = "ok" =>
        Cardinality({pen_cols.date, pen_cols.pen, pen_cols.feed, pen_cols.water}) = 4


-----------------------------------------------------------------------------
(* The script visualize_feeding_data.py, lines 186-197 *)

\* read_and_process_file: the column resolution, then the aggregation
read_and_process_file(cols, table) ==
    IF ResolveUnit(cols).status = "none" THEN None ELSE ProcessFile(table)

\* a chart function without the test for an empty aggregate: np.polyfit
\* raises on an empty series
chart_unchecked(data, raises) ==
    IF raises \/ data.rows = <<>> THEN "raise" ELSE "saved"

\* create_visualization: nothing is drawn for an empty aggregate; saving the
\* chart raises when the environment makes it raise
create_visualization(data, raises) ==
    IF data = None \/ data.rows = <<>> THEN "skipped"
    ELSE IF raises THEN "raise"
    ELSE "saved"

\* one pass of the loop body for file f
ProcessOneFile(f) ==
    IF ~f.exists THEN "missing"
    ELSE LET data == read_and_process_file(f.columns, f.table)
         IN  IF data = None THEN "unreadable"
             ELSE create_visualization(data, f.raises)

UnitHeaders ==
    { <<"siwei riqi", "meiri caishi zongliang", "meiri weishui zongliang">>,
      <<"siwei riqi", "meiri caishi zongliang">> }

FileRow(feed) ==
    [date |-> Timestamp(FirstDay, 0), pen |-> IntCell(1), feed |-> feed,
     water |-> IntCell(1)]

FileTables ==
    { <<>>, <<FileRow(NaN)>>, <<FileRow(IntCell(1))>>,
      <<FileRow(IntCell(1)), [FileRow(IntCell(0)) EXCEPT !.date = Str]>> }

FeedingFiles ==
    [exists : BOOLEAN, columns : UnitHeaders, table : FileTables, raises : BOOLEAN]

InitFileDriver ==
    /\ files \in SeqsUpTo(FeedingFiles, MaxFiles)
    /\ file_idx = 1
    /\ outcomes = <<>>
    /\ pc = "files"
    /\ file_exists = FALSE
    /\ chart_raises = {}
    /\ target_pens = <<>>
    /\ charts = <<>>
    /\ AggIdle /\ AccIdle /\ SheetIdle /\ SerialIdle /\ StdIdle
    /\ CurveIdle /\ ColIdle /\ EvIdle

\* lines 187-195: one pass of the loop; nothing catches an exception of
\* create_visualization, so it ends the script
FileLoopStep ==
    /\ pc = "files"
    /\ file_idx <= Len(files)
    /\ LET out == ProcessOneFile(files[file_idx])
       IN  IF out = "raise"
           THEN /\ pc' = "crashed"
                /\ UNCHANGED <<file_idx, outcomes>>
           ELSE /\ outcomes' = Append(outcomes, out)
                /\ file_idx' = file_idx + 1
                /\ pc' = "files"
    /\ UNCHANGED <<files, file_exists, chart_raises, target_pens, charts,
                   aggVars, accVars, sheetVars, serialVars, stdVars,
                   curveVars, colVars, evVars>>

\* line 197: the loop is over
FileLoopEnd ==
    /\ pc = "files"
    /\ file_idx > Len(files)
    /\ pc' = "done"
    /\ UNCHANGED <<files, file_idx, outcomes, file_exists, chart_raises,
                   target_pens, charts, aggVars, accVars, sheetVars, serialVars,
                   stdVars, curveVars, colVars, evVars>>

NextFileDriver ==
    \/ FileLoopStep
    \/ FileLoopEnd

SpecFileDriver == InitFileDriver /\ [][NextFileDriver]_vars

\* the aggregation of file f has zero rows: the file is there, its columns
\* resolve, and no date has a feed and a water
ZeroRows(f) ==
    /\ f.exists
    /\ Matching(f.columns, "date") # {}
    /\ Matching(f.columns, "unit feed") # {}
    /\ Matching(f.columns, "unit water") # {}
    /\ \A j \in 1..Len(f.table) :
          \/ f.table[j].date.k # "ts"
          \/ \A k \in 1..Len(f.table) :
                f.table[k].date = f.table[j].date => ~notna(f.table[k].feed)
          \/ \A k \in 1..Len(f.table) :
                f.table[k].date = f.table[j].date => ~notna(f.table[k].water)

\* C23: a file whose aggregation has zero rows gets no chart: its chart is
\* skipped, no exception ends the script because of it, and the loop goes on
\* to the next file.
C23_EmptyAggregateSkipped ==
    /\ \A i \in 1..Len(outcomes) :
          /\ ZeroRows(files[i]) => outcomes[i] = "skipped"
          /\ outcomes[i] = "saved" => ~ZeroRows(files[i])
    /\ pc = "crashed" => ~ZeroRows(files[file_idx])
    /\ pc # "crashed" => Len(outcomes) = file_idx - 1
    /\ pc = "done" => Len(outcomes) = Len(files)

\* the loop is over: the first file had rows without a feed and was skipped,
\* the chart of the second was saved
C23_Witness ==
    /\ pc = "done"
    /\ Len(files) = 2
    /\ files[1].table # <<>>
    /\ ZeroRows(files[1])
    /\ outcomes = <<"skipped", "saved">>

=============================================================================
